---------------------------- MODULE Spec2Model ----------------------------
(***************************************************************************)
(* Model of src/script.js (kilterboard-canvas): the Kilter board LED wire  *)
(* protocol (checksum, frame wrapping, position/colour codec, packet       *)
(* splitting, transport chunking) and the Web Bluetooth write sequence.    *)
(*                                                                         *)
(* JavaScript strings are modelled as sequences of one-character strings,  *)
(* byte arrays as sequences of integers, and JavaScript numbers as records *)
(* [nan, num, den] (NaN, or the rational num/den), so that parseInt, "/",  *)
(* "<<", "|", "&" and "~" are computed the way the engine computes them.   *)
(***************************************************************************)
EXTENDS Integers, Sequences, FiniteSets, TLC

\* ------------------------------------------------------------ constants
MAX_BLUETOOTH_MESSAGE_SIZE == 20
MESSAGE_BODY_MAX_LENGTH == 255
PACKET_MIDDLE == 81
PACKET_FIRST == 82
PACKET_LAST == 83
PACKET_ONLY == 84

\* ------------------------------------------------- JavaScript numbers
\* The value NaN (Number(undefined), parseInt of a non-numeric string).
NaN == [nan |-> TRUE, num |-> 0, den |-> 1]

\* The number n.
Num(n) == [nan |-> FALSE, num |-> n, den |-> 1]

\* x / d for a positive integer d.
Divide(x, d) == IF x.nan THEN NaN ELSE [nan |-> FALSE, num |-> x.num, den |-> x.den * d]

\* ToInt32: NaN becomes 0, anything else is truncated toward zero.  Every
\* value of the model lies inside the 32-bit range, so no wrap-around occurs.
ToInt32(x) ==
    IF x.nan THEN 0
    ELSE IF x.num >= 0 THEN x.num \div x.den
    ELSE -((-x.num) \div x.den)

\* a & b on two's complement integers.
RECURSIVE BitAnd(_, _)
BitAnd(a, b) ==
    IF a = 0 \/ b = 0 THEN 0
    ELSE IF a = -1 THEN b
    ELSE IF b = -1 THEN a
    ELSE (a % 2) * (b % 2) + 2 * BitAnd(a \div 2, b \div 2)

\* a | b on two's complement integers.
RECURSIVE BitOr(_, _)
BitOr(a, b) ==
    IF a = 0 THEN b
    ELSE IF b = 0 THEN a
    ELSE IF a = -1 \/ b = -1 THEN -1
    ELSE (IF a % 2 = 1 \/ b % 2 = 1 THEN 1 ELSE 0) + 2 * BitOr(a \div 2, b \div 2)

\* ~a
BitNot(a) == -a - 1

\* a << k and a >> k (arithmetic), for results inside the 32-bit range.
ShiftLeft(a, k) == a * (2 ^ k)

ShiftRight(a, k) == a \div (2 ^ k)

\* ------------------------------------------------- JavaScript strings
HexDigits == <<"0", "1", "2", "3", "4", "5", "6", "7", "8", "9",
               "A", "B", "C", "D", "E", "F">>

LowerHexDigits == <<"0", "1", "2", "3", "4", "5", "6", "7", "8", "9",
                    "a", "b", "c", "d", "e", "f">>

IsHexDigit(c) == \E d \in 1..16 : HexDigits[d] = c \/ LowerHexDigits[d] = c

HexValue(c) == (CHOOSE d \in 1..16 : HexDigits[d] = c \/ LowerHexDigits[d] = c) - 1

Min(a, b) == IF a < b THEN a ELSE b

\* str.substring(from, to) for 0 <= from <= to (indices are clamped to the length).
substring(str, from, to) == SubSeq(str, Min(from, Len(str)) + 1, Min(to, Len(str)))

\* The length of the longest prefix of str made of hexadecimal digits.
RECURSIVE HexPrefixLen(_, _)
HexPrefixLen(str, i) ==
    IF i <= Len(str) /\ IsHexDigit(str[i]) THEN HexPrefixLen(str, i + 1) ELSE i - 1

RECURSIVE HexNumber(_, _)
HexNumber(str, k) == IF k = 0 THEN 0 ELSE 16 * HexNumber(str, k - 1) + HexValue(str[k])

\* parseInt(str, 16): the value of the longest hexadecimal prefix, NaN when
\* there is none (for strings without a sign, leading blanks or a 0x prefix).
parseInt16(str) ==
    LET k == HexPrefixLen(str, 1)
    IN  IF k = 0 THEN NaN ELSE Num(HexNumber(str, k))

\* The concatenation of lists[lo], ..., lists[hi], in order (the range is
\* halved so that long lists do not nest deeply).
RECURSIVE FlattenRange(_, _, _)
FlattenRange(lists, lo, hi) ==
    IF lo > hi THEN <<>>
    ELSE IF lo = hi THEN lists[lo]
    ELSE LET mid == (lo + hi) \div 2
         IN  FlattenRange(lists, lo, mid) \o FlattenRange(lists, mid + 1, hi)

\* The pieces of str[lo..hi] between the occurrences of sep, in order: the
\* range is cut at the separator nearest its middle and both sides are split.
RECURSIVE SplitRange(_, _, _, _)
SplitRange(str, sep, lo, hi) ==
    LET seps == {i \in lo..hi : str[i] = sep}
        mid == (lo + hi) \div 2
        right == {i \in seps : i >= mid}
        cut == IF right # {}
               THEN CHOOSE i \in right : \A j \in right : i <= j
               ELSE CHOOSE i \in seps : \A j \in seps : j <= i
    IN  IF seps = {} THEN <<SubSeq(str, lo, hi)>>
        ELSE SplitRange(str, sep, lo, cut - 1) \o SplitRange(str, sep, cut + 1, hi)

\* str.split(sep) for a one-character separator: "" splits into [""].
split(str, sep) == SplitRange(str, sep, 1, Len(str))

\* --------------------------------------------------------- the codec
\* checksum(data): the accumulator i after the loop has run over
\* data[lo..hi], entered with the accumulator at i.  The range is halved so
\* that long bodies do not nest deeply; the accumulator handed from the
\* left half to the right half is a byte, "& 255" having been applied.
RECURSIVE ChecksumLoop(_, _, _, _)
ChecksumLoop(data, i, lo, hi) ==
    IF lo > hi THEN i
    ELSE IF lo = hi THEN BitAnd(i + data[lo], 255)
    ELSE LET mid == (lo + hi) \div 2
             left == ChecksumLoop(data, i, lo, mid)
         IN  CASE left \in 0..255 -> ChecksumLoop(data, left, mid + 1, hi)

\* checksum with the final inversion left out.
checksum_NotInverted(data) == BitAnd(ChecksumLoop(data, 0, 1, Len(data)), 255)

checksum(data) == BitAnd(BitNot(ChecksumLoop(data, 0, 1, Len(data))), 255)

\* wrapBytes with the closing marker left out.
wrapBytes_NoEndMarker(data) ==
    IF Len(data) > MESSAGE_BODY_MAX_LENGTH THEN <<>>
    ELSE <<1, Len(data), checksum(data), 2>> \o data

wrapBytes(data) ==
    IF Len(data) > MESSAGE_BODY_MAX_LENGTH THEN <<>>
    ELSE <<1, Len(data), checksum(data), 2>> \o data \o <<3>>

\* encodePosition with the high byte first.
encodePosition_BigEndian(position) ==
    LET position1 == BitAnd(ToInt32(position), 255)
        position2 == ShiftRight(BitAnd(ToInt32(position), 65280), 8)
    IN  <<position2, position1>>

encodePosition(position) ==
    LET position1 == BitAnd(ToInt32(position), 255)
        position2 == ShiftRight(BitAnd(ToInt32(position), 65280), 8)
    IN  <<position1, position2>>

encodeColor(color) ==
    LET parsedSubstring == Divide(parseInt16(substring(color, 0, 2)), 32)
        parsedSubstring2 == Divide(parseInt16(substring(color, 2, 4)), 32)
        parsedResult == BitOr(ShiftLeft(ToInt32(parsedSubstring), 5),
                              ShiftLeft(ToInt32(parsedSubstring2), 2))
        parsedSubstring3 == Divide(parseInt16(substring(color, 4, 6)), 64)
    IN  BitOr(parsedResult, ToInt32(parsedSubstring3))

encodePositionAndColor(position, ledColor) ==
    encodePosition(position) \o <<encodeColor(ledColor)>>


\* ------------------------------------------------ the packet splitter
\* Number(placementPositions[placement]): a missing key reads as undefined,
\* and Number(undefined) is NaN.
NumberOfPosition(placementPositions, placement) ==
    IF placement \in DOMAIN placementPositions
    THEN Num(placementPositions[placement])
    ELSE NaN

\* colors[role] || role
ColorOfRole(colors, role) ==
    IF role \in DOMAIN colors /\ Len(colors[role]) > 0 THEN colors[role] ELSE role

\* The test with the 3-byte margin taken off the limit as well.
ShouldSplit_Minus3(tempArray) == Len(tempArray) + 3 > MESSAGE_BODY_MAX_LENGTH - 3

\* The test with the triple about to be added left out.
ShouldSplit_IgnoresTriple(tempArray) == Len(tempArray) > MESSAGE_BODY_MAX_LENGTH

\* The test that closes the current packet buffer before a triple is added.
ShouldSplit(tempArray) == Len(tempArray) + 3 > MESSAGE_BODY_MAX_LENGTH

\* The forEach callback: acc holds resultArray and tempArray.
forEachCallback(acc, frame, placementPositions, colors) ==
    IF Len(frame) > 0
    THEN LET parts == split(frame, "r")
             placement == parts[1]
             role == parts[2]
             encodedFrame == encodePositionAndColor(
                                 NumberOfPosition(placementPositions, placement),
                                 ColorOfRole(colors, role))
             closed == IF ShouldSplit(acc.tempArray)
                       THEN [resultArray |-> Append(acc.resultArray, acc.tempArray),
                             tempArray |-> <<PACKET_MIDDLE>>]
                       ELSE acc
         IN  [closed EXCEPT !.tempArray = @ \o encodedFrame]
    ELSE acc

\* The role markers with the last packet's marker left as it was.
setRoleMarkers_LastLeftMiddle(resultArray) ==
    IF Len(resultArray) = 1
    THEN [resultArray EXCEPT ![1][1] = PACKET_ONLY]
    ELSE IF Len(resultArray) > 1
    THEN [resultArray EXCEPT ![1][1] = PACKET_FIRST]
    ELSE resultArray

\* The role markers written once every buffer has been pushed.
setRoleMarkers(resultArray) ==
    IF Len(resultArray) = 1
    THEN [resultArray EXCEPT ![1][1] = PACKET_ONLY]
    ELSE IF Len(resultArray) > 1
    THEN [resultArray EXCEPT ![1][1] = PACKET_FIRST,
                             ![Len(resultArray)][1] = PACKET_LAST]
    ELSE resultArray

\* finalResultArray once every packet has been wrapped and pushed.
WrapLoop(resultArray) ==
    FlattenRange([k \in 1..Len(resultArray) |-> wrapBytes(resultArray[k])],
                 1, Len(resultArray))

\* Uint8Array.from(list): every element is reduced modulo 256.
Uint8ArrayFrom(list) == [i \in 1..Len(list) |-> list[i] % 256]

\* The accumulator after the callback has run on frameList[lo..hi], entered
\* with the accumulator at acc.  The range is halved so that long requests do
\* not nest deeply; the buffer handed on always holds its marker byte.
RECURSIVE ForEach(_, _, _, _, _, _)
ForEach(frameList, acc, lo, hi, placementPositions, colors) ==
    IF lo > hi THEN acc
    ELSE IF lo = hi THEN forEachCallback(acc, frameList[lo], placementPositions, colors)
    ELSE LET mid == (lo + hi) \div 2
             left == ForEach(frameList, acc, lo, mid, placementPositions, colors)
         IN  CASE Len(left.tempArray) > 0 ->
                  ForEach(frameList, left, mid + 1, hi, placementPositions, colors)

getBluetoothPacket(frames, placementPositions, colors) ==
    LET frameList == split(frames, "p")
        acc == ForEach(frameList, [resultArray |-> <<>>, tempArray |-> <<PACKET_MIDDLE>>],
                       1, Len(frameList), placementPositions, colors)
        marked == setRoleMarkers(Append(acc.resultArray, acc.tempArray))
    IN  Uint8ArrayFrom(WrapLoop(marked))

\* ---------------------------------------------- the transport chunker
\* list.slice(from, to) for 0 <= from <= to.
slice(list, from, to) == SubSeq(list, Min(from, Len(list)) + 1, Min(to, Len(list)))

\* The loop leaving as soon as fewer than n elements remain.
SplitLoop_DropsPartial(n, list) ==
    [k \in 1..(Len(list) \div n) |-> slice(list, (k - 1) * n, k * n)]

\* The while loop of splitEvery for n > 0: pass k is entered with
\* idx = (k - 1) * n, pushes list.slice(idx, idx + n), and the loop is left
\* at the first idx >= list.length.
SplitLoop(n, list) ==
    LET passes == (Len(list) + n - 1) \div n
    IN  [k \in 1..passes |-> slice(list, (k - 1) * n, k * n)]

\* splitEvery(n, list): threw tells whether the call ended in the Error.
splitEvery(n, list) ==
    IF n <= 0 THEN [threw |-> TRUE, result |-> <<>>]
    ELSE [threw |-> FALSE, result |-> SplitLoop(n, list)]

\* splitMessages(buffer) of illuminateClimb.
splitMessages(buffer) == splitEvery(MAX_BLUETOOTH_MESSAGE_SIZE, buffer).result

\* ------------------------------------------------------------ inputs
\* The position lookup handed to getBluetoothPacket (KILTER_POSITIONS): a
\* sample of hold ids with their LED positions.  The id "9" is not a key.
KILTER_POSITIONS ==
    (<<"5">> :> 1024) @@ (<<"7">> :> 255) @@ (<<"1", "2">> :> 4660)

\* The role lookup the click handler passes: {}.
NoColors == [role \in {} |-> <<>>]

\* Entries (hold id, colour) an illumination request is built from.
PairPool == <<
    [id |-> <<"5">>, color |-> <<"0", "0", "F", "F", "0", "0">>],
    [id |-> <<"7">>, color |-> <<"F", "F", "0", "0", "0", "0">>],
    [id |-> <<"1", "2">>, color |-> <<"4", "0", "8", "0", "C", "0">>],
    [id |-> <<"9">>, color |-> <<"F", "F", "F", "F", "F", "F">>],
    [id |-> <<"5">>, color |-> <<"0", "0", "0", "0", "F", "F">>] >>

\* Largest number of entries of a request, and largest stride of the pool walk.
MaxPairs == 170
MaxSeed == 1

\* n entries: the pool walked with stride seed, starting at its first entry.
EntriesOf(n, seed) ==
    [i \in 1..n |-> PairPool[(((i - 1) * seed) % Len(PairPool)) + 1]]

\* The frames string the Light-Up handler builds: "p" id "r" colour per entry.
FramesOf(stateEntries) ==
    FlattenRange([k \in 1..Len(stateEntries) |->
                     <<"p">> \o stateEntries[k].id \o <<"r">> \o stateEntries[k].color],
                 1, Len(stateEntries))

\* ------------------------------------------------------------- state
VARIABLES
    entries,          \* the entries the frames string was built from
    frames,           \* the frames argument of getBluetoothPacket
    frameList,        \* frames.split("p"), the array forEach walks
    idx,              \* the index of the next element forEach visits
    resultArray,      \* the closed packet buffers
    tempArray,        \* the current packet buffer
    bluetoothPacket,  \* the byte stream getBluetoothPacket returns
    messages,         \* the transport units splitMessages yields
    pc,               \* where the computation stands
    call,             \* a codec function applied on its own, with its arguments
    result,           \* what that application returned
    state,            \* the page's map of hold id to colour
    isDrawing,        \* whether a mouse button is held down over the board
    bluetoothDevice,  \* the cached device handle, "null" before the first grant
    requests,         \* one record per illuminateClimb invocation
    delivered         \* the writes the device has received, in arrival order

packVars == <<entries, frames, frameList, idx, resultArray, tempArray,
              bluetoothPacket, messages, pc>>

codecVars == <<call, result>>

pageVars == <<state, isDrawing, bluetoothDevice, requests, delivered>>

vars == <<packVars, codecVars, pageVars>>

\* No call of getBluetoothPacket is being followed.
PackIdle ==
    /\ entries = <<>>
    /\ frames = <<>>
    /\ frameList = <<>>
    /\ idx = 0
    /\ resultArray = <<>>
    /\ tempArray = <<>>
    /\ bluetoothPacket = <<>>
    /\ messages = <<>>
    /\ pc = "idle"

\* No codec function is being applied on its own.
CodecIdle ==
    /\ call = [fn |-> "none"]
    /\ result = [done |-> FALSE]

\* The page holds no selection and has started no illumination.
PageIdle ==
    /\ state = <<>>
    /\ isDrawing = FALSE
    /\ bluetoothDevice = "null"
    /\ requests = <<>>
    /\ delivered = <<>>

\* A call of getBluetoothPacket(frames, KILTER_POSITIONS, {}) is about to start.
Init ==
    /\ \E n \in 0..MaxPairs, seed \in 0..MaxSeed :
           /\ entries = EntriesOf(n, seed)
           /\ frames = FramesOf(EntriesOf(n, seed))
    /\ frameList = <<>>
    /\ idx = 0
    /\ resultArray = <<>>
    /\ tempArray = <<>>
    /\ bluetoothPacket = <<>>
    /\ messages = <<>>
    /\ pc = "call"
    /\ CodecIdle
    /\ PageIdle

\* Entry of getBluetoothPacket up to the start of the forEach.
Begin ==
    /\ pc = "call"
    /\ resultArray' = <<>>
    /\ tempArray' = <<PACKET_MIDDLE>>
    /\ frameList' = split(frames, "p")
    /\ idx' = 1
    /\ pc' = "forEach"
    /\ UNCHANGED <<entries, frames, bluetoothPacket, messages, codecVars, pageVars>>

\* One run of the forEach callback.
ForEachFrame ==
    /\ pc = "forEach"
    /\ idx <= Len(frameList)
    /\ LET acc == forEachCallback([resultArray |-> resultArray, tempArray |-> tempArray],
                                  frameList[idx], KILTER_POSITIONS, NoColors)
       IN  /\ resultArray' = acc.resultArray
           /\ tempArray' = acc.tempArray
    /\ idx' = idx + 1
    /\ UNCHANGED <<entries, frames, frameList, bluetoothPacket, messages, pc,
                   codecVars, pageVars>>

\* After the forEach: the last buffer is pushed, the role markers are set
\* (the last buffer is the array tempArray names), every packet is wrapped
\* and the stream is returned.
Finish ==
    /\ pc = "forEach"
    /\ idx > Len(frameList)
    /\ LET marked == setRoleMarkers(Append(resultArray, tempArray))
       IN  /\ resultArray' = marked
           /\ tempArray' = marked[Len(marked)]
           /\ bluetoothPacket' = Uint8ArrayFrom(WrapLoop(marked))
    /\ pc' = "returned"
    /\ UNCHANGED <<entries, frames, frameList, idx, messages, codecVars, pageVars>>

\* splitMessages(bluetoothPacket) in illuminateClimb.
SplitMessages ==
    /\ pc = "returned"
    /\ messages' = splitMessages(bluetoothPacket)
    /\ pc' = "split"
    /\ UNCHANGED <<entries, frames, frameList, idx, resultArray, tempArray,
                   bluetoothPacket, codecVars, pageVars>>

Next == Begin \/ ForEachFrame \/ Finish \/ SplitMessages

Spec == Init /\ [][Next]_vars

\* ------------------------------------------- claims on the pipeline
\* getBluetoothPacket has returned.
Returned == pc \in {"returned", "split"}

\* The triple the codec yields for one entry of the request.
TripleOf(entry) ==
    encodePositionAndColor(NumberOfPosition(KILTER_POSITIONS, entry.id),
                           ColorOfRole(NoColors, entry.color))

\* The triples of all entries, in input order.
AllTriples == FlattenRange([k \in 1..Len(entries) |-> TripleOf(entries[k])],
                           1, Len(entries))

\* The bytes of the packets after their role markers, in packet order.
Payloads(packets) ==
    FlattenRange([k \in 1..Len(packets) |-> Tail(packets[k])], 1, Len(packets))

\* The sum of data[lo..hi].
RECURSIVE SumRange(_, _, _)
SumRange(data, lo, hi) ==
    IF lo > hi THEN 0
    ELSE IF lo = hi THEN data[lo]
    ELSE SumRange(data, lo, (lo + hi) \div 2) + SumRange(data, ((lo + hi) \div 2) + 1, hi)

\* The offset in the stream of the frame of packet k: every earlier packet
\* takes its own length plus five framing bytes.
RECURSIVE FrameOffset(_, _)
FrameOffset(packets, k) ==
    IF k = 1 THEN 0 ELSE FrameOffset(packets, k - 1) + Len(packets[k - 1]) + 5

\* C1: once getBluetoothPacket has returned, a single packet is marked ONLY;
\* of several packets the first is marked FIRST, the last LAST and every
\* packet between them MIDDLE.
C1_RoleMarkers ==
    Returned =>
        /\ Len(resultArray) >= 1
        /\ Len(resultArray) = 1 => resultArray[1][1] = PACKET_ONLY
        /\ Len(resultArray) > 1 =>
               /\ resultArray[1][1] = PACKET_FIRST
               /\ resultArray[Len(resultArray)][1] = PACKET_LAST
               /\ \A k \in 2..(Len(resultArray) - 1) : resultArray[k][1] = PACKET_MIDDLE

\* A request that needed a first, an interior and a last packet has returned.
C1_Witness == Returned /\ Len(resultArray) >= 3

\* The step the forEach callback takes on a frame that names a pair, with the
\* buffer closed exactly when its length plus 3 exceeds limit.
SplitsExactlyAbove(limit) ==
    (pc = "forEach" /\ idx <= Len(frameList) /\ Len(frameList[idx]) > 0) =>
        IF Len(tempArray) + 3 > limit
        THEN /\ resultArray' = Append(resultArray, tempArray)
             /\ tempArray' = <<PACKET_MIDDLE>> \o TripleOf(entries[idx - 1])
        ELSE /\ resultArray' = resultArray
             /\ tempArray' = tempArray \o TripleOf(entries[idx - 1])

\* C2 (amended): while processing each pair the splitter closes the current
\* buffer and starts a new one holding the MIDDLE placeholder if and only if
\* appending the 3 bytes would make the buffer length exceed
\* MESSAGE_BODY_MAX_LENGTH = 255; otherwise the triple is appended to the
\* current buffer.
C2_SplitsAboveMaxLength == [][SplitsExactlyAbove(MESSAGE_BODY_MAX_LENGTH)]_vars

\* C2 (as stated): the buffer is closed if and only if appending the 3 bytes
\* would make its length exceed MESSAGE_BODY_MAX_LENGTH - 3 = 252.
C2_SplitsAboveMaxLengthMinus3 == [][SplitsExactlyAbove(MESSAGE_BODY_MAX_LENGTH - 3)]_vars

\* A buffer has just been closed and the new one holds its first triple.
C2_Witness == pc = "forEach" /\ Len(resultArray) >= 1 /\ Len(tempArray) = 4

\* C3: a request of N pairs with 3 * N <= 252 yields exactly one packet,
\* marked ONLY, that holds all N triples in input order; a request that
\* yields exactly two packets has them marked FIRST and LAST.
C3_OnePacketUpTo84Pairs ==
    Returned =>
        /\ 3 * Len(entries) <= 252 =>
               /\ Len(resultArray) = 1
               /\ resultArray[1] = <<PACKET_ONLY>> \o AllTriples
        /\ Len(resultArray) = 2 =>
               /\ resultArray[1][1] = PACKET_FIRST
               /\ resultArray[2][1] = PACKET_LAST

\* The largest request that fits one packet has returned.
C3_Witness == Returned /\ 3 * Len(entries) = 252

\* C8 (as stated): getBluetoothPacket never returns a byte stream for a
\* request that names a position id absent from the position lookup.
C8_RejectsUnknownPosition ==
    Returned => \A k \in 1..Len(entries) : entries[k].id \in DOMAIN KILTER_POSITIONS

\* C9 (amended): for an empty frames description getBluetoothPacket yields
\* the one packet [ONLY], wrapped as [1, 1, 171, 2, 84, 3], and chunking that
\* stream with size 20 yields exactly one transport unit of 6 bytes.
C9_ZeroPairsOneUnitOf6 ==
    (pc = "split" /\ frames = <<>>) =>
        /\ resultArray = << <<PACKET_ONLY>> >>
        /\ bluetoothPacket = <<1, 1, 171, 2, 84, 3>>
        /\ messages = << <<1, 1, 171, 2, 84, 3>> >>
        /\ Len(messages[1]) = 6

\* C9 (as stated): ... yields exactly one transport unit of 8 bytes.
C9_ZeroPairsOneUnitOf8 ==
    (pc = "split" /\ frames = <<>>) =>
        /\ resultArray = << <<PACKET_ONLY>> >>
        /\ bluetoothPacket = <<1, 1, 171, 2, 84, 3>>
        /\ Len(messages) = 1
        /\ Len(messages[1]) = 8

\* The empty request has been packed and chunked.
C9_Witness == pc = "split" /\ frames = <<>>

\* C10: every packet is at most 255 bytes long and of the form 1 + 3k; the
\* stream is exactly one frame per packet, in order, whose length byte is the
\* packet's byte count and whose checksum byte complements the sum of that
\* packet's bytes to 255 modulo 256; the packets carry all triples in input
\* order.
C10_OneFramePerPacket ==
    Returned =>
        /\ \A k \in 1..Len(resultArray) :
               /\ Len(resultArray[k]) <= 255
               /\ Len(resultArray[k]) % 3 = 1
               /\ LET packet == resultArray[k]
                      off == FrameOffset(resultArray, k)
                  IN  /\ Len(bluetoothPacket) >= off + Len(packet) + 5
                      /\ bluetoothPacket[off + 1] = 1
                      /\ bluetoothPacket[off + 2] = Len(packet)
                      /\ (SumRange(packet, 1, Len(packet)) + bluetoothPacket[off + 3]) % 256
                             = 255
                      /\ bluetoothPacket[off + 4] = 2
                      /\ SubSeq(bluetoothPacket, off + 5, off + 4 + Len(packet)) = packet
                      /\ bluetoothPacket[off + 5 + Len(packet)] = 3
        /\ Len(bluetoothPacket) =
               FrameOffset(resultArray, Len(resultArray))
                   + Len(resultArray[Len(resultArray)]) + 5
        /\ Payloads(resultArray) = AllTriples

\* A request that needed two packets has returned.
C10_Witness == Returned /\ Len(resultArray) = 2 /\ Len(resultArray[1]) = 253

\* --------------------------------- the codec functions on their own
\* v.toString(16) for v >= 0.
RECURSIVE toString16(_)
toString16(v) ==
    IF v < 16 THEN <<LowerHexDigits[v + 1]>>
    ELSE toString16(v \div 16) \o <<LowerHexDigits[(v % 16) + 1]>>

\* str.toUpperCase() on hexadecimal digits.
toUpperCase(str) ==
    [i \in 1..Len(str) |->
        HexDigits[CHOOSE d \in 1..16 : LowerHexDigits[d] = str[i] \/ HexDigits[d] = str[i]]]

\* The hex colour processImage derives from a pixel:
\* ((1 << 24) + (r << 16) + (g << 8) + b).toString(16).slice(1).toUpperCase()
RgbToHex(r, g, b) ==
    LET digits == toString16(ShiftLeft(1, 24) + ShiftLeft(r, 16) + ShiftLeft(g, 8) + b)
    IN  toUpperCase(slice(digits, 1, Len(digits)))

\* Largest body handed to wrapBytes, and the number of byte patterns beyond
\* the first.
MaxBody == 256
MaxBodySeed == 1

\* A body of len bytes: all 255 for seed 0, otherwise a walk over the bytes.
BodyOf(len, seed) == [i \in 1..len |-> (255 + seed * i * 37) % 256]

\* Positions combined with every sampled colour: the powers of two up to
\* 65536, their predecessors, and a few values with both bytes set.
PositionSamples ==
    {2 ^ k : k \in 0..16} \cup {(2 ^ k) - 1 : k \in 0..16} \cup {1024, 4660, 65280, 43981}

\* Positions in which one byte takes every value while the other is held at
\* 0, 1, 128 or 255.
PositionSweeps ==
    {lo + (256 * hi) : lo \in 0..255, hi \in {0, 1, 128, 255}}
        \cup {lo + (256 * hi) : lo \in {0, 1, 128, 255}, hi \in 0..255}

\* Values of one colour component at the edges of the quantisation steps.
ComponentSamples == {0, 31, 32, 63, 64, 128, 224, 255}

\* Colours in which one component takes every 8-bit value.
ComponentSweeps ==
    {<<v, 0, 0>> : v \in 0..255} \cup {<<0, v, 0>> : v \in 0..255}
        \cup {<<255, 255, v>> : v \in 0..255}

\* Longest stream and largest chunk size handed to splitEvery.
MaxStream == 45
MaxChunk == 20

\* A stream of len bytes, all different from their neighbours.
StreamOf(len) == [i \in 1..len |-> (i * 7) % 256]

CodecCalls ==
    {[fn |-> "wrapBytes", data |-> BodyOf(len, seed)] :
        len \in 0..MaxBody, seed \in 0..MaxBodySeed}
    \cup
    {[fn |-> "encodePositionAndColor", position |-> p, rgb |-> c,
      ledColor |-> RgbToHex(c[1], c[2], c[3])] :
        p \in PositionSamples,
        c \in ComponentSamples \X ComponentSamples \X ComponentSamples}
    \cup
    {[fn |-> "encodePositionAndColor", position |-> p, rgb |-> <<0, 255, 0>>,
      ledColor |-> RgbToHex(0, 255, 0)] : p \in PositionSweeps}
    \cup
    {[fn |-> "encodePositionAndColor", position |-> 1024, rgb |-> c,
      ledColor |-> RgbToHex(c[1], c[2], c[3])] : c \in ComponentSweeps}
    \cup
    {[fn |-> "splitEvery", n |-> n, list |-> StreamOf(len)] :
        n \in -1..MaxChunk, len \in 0..MaxStream}

\* One of the codec functions is about to be applied to one input.
InitCodec ==
    /\ call \in CodecCalls
    /\ result = [done |-> FALSE]
    /\ PackIdle
    /\ PageIdle

CallWrapBytes ==
    /\ call.fn = "wrapBytes"
    /\ ~result.done
    /\ result' = [done |-> TRUE, value |-> wrapBytes(call.data)]
    /\ UNCHANGED <<call, packVars, pageVars>>

CallEncodePositionAndColor ==
    /\ call.fn = "encodePositionAndColor"
    /\ ~result.done
    /\ result' = [done |-> TRUE,
                  value |-> encodePositionAndColor(Num(call.position), call.ledColor)]
    /\ UNCHANGED <<call, packVars, pageVars>>

CallSplitEvery ==
    /\ call.fn = "splitEvery"
    /\ ~result.done
    /\ result' = [done |-> TRUE, value |-> splitEvery(call.n, call.list)]
    /\ UNCHANGED <<call, packVars, pageVars>>

NextCodec == CallWrapBytes \/ CallEncodePositionAndColor \/ CallSplitEvery

SpecCodec == InitCodec /\ [][NextCodec]_vars

\* --------------------------------------- claims on the codec functions
\* C4: for a body of at most 255 bytes wrapBytes returns
\* [1, len, c, 2, ...body, 3], len + 5 bytes long, where c is the byte with
\* (sum(body) mod 256 + c) mod 256 = 255 (255 for the empty body).
C4_WrapBytesLayout ==
    (call.fn = "wrapBytes" /\ result.done /\ Len(call.data) <= 255) =>
        LET body == call.data
            wrapped == result.value
        IN  /\ Len(wrapped) = Len(body) + 5
            /\ wrapped[1] = 1
            /\ wrapped[2] = Len(body)
            /\ wrapped[3] \in 0..255
            /\ ((SumRange(body, 1, Len(body)) % 256) + wrapped[3]) % 256 = 255
            /\ body = <<>> => wrapped[3] = 255
            /\ wrapped[4] = 2
            /\ SubSeq(wrapped, 5, Len(body) + 4) = body
            /\ wrapped[Len(body) + 5] = 3

\* A body of the largest admitted length, whose sum wraps, has been wrapped.
C4_Witness ==
    /\ call.fn = "wrapBytes"
    /\ result.done
    /\ Len(call.data) = 255
    /\ SumRange(call.data, 1, 255) > 256

\* C5: for a position p in 0..65535 and a colour with 8-bit components
\* (r, g, b), encodePositionAndColor returns the 3 bytes
\* [p mod 256, p div 256, (r div 32) * 32 + (g div 32) * 4 + (b div 64)];
\* the first two read as little-endian give p back; position 1024 with
\* colour 00FF00 gives [0, 4, 28] and colour FF0000 gives colour byte 224.
C5_TripleLayout ==
    (call.fn = "encodePositionAndColor" /\ result.done /\ call.position \in 0..65535) =>
        LET p == call.position
            r == call.rgb[1]
            g == call.rgb[2]
            b == call.rgb[3]
            triple == result.value
        IN  /\ triple = <<p % 256, p \div 256,
                          ((r \div 32) * 32) + ((g \div 32) * 4) + (b \div 64)>>
            /\ \A k \in 1..3 : triple[k] \in 0..255
            /\ triple[1] + (256 * triple[2]) = p
            /\ (p = 1024 /\ call.ledColor = <<"0", "0", "F", "F", "0", "0">>) =>
                   triple = <<0, 4, 28>>
            /\ call.ledColor = <<"F", "F", "0", "0", "0", "0">> => triple[3] = 224

\* Position 1024 with colour 00FF00 has been encoded.
C5_Witness ==
    /\ call.fn = "encodePositionAndColor"
    /\ result.done
    /\ call.position = 1024
    /\ call.ledColor = <<"0", "0", "F", "F", "0", "0">>

\* C6: for n > 0, splitEvery(n, s) returns chunks whose concatenation is s,
\* all of length n except the last, which holds between 1 and n bytes; the
\* empty stream yields no chunk; 45 bytes with n = 20 yield lengths
\* [20, 20, 5]; for n <= 0 the call fails with the Error and yields no chunk.
C6_SplitEveryPartition ==
    (call.fn = "splitEvery" /\ result.done) =>
        LET chunks == result.value.result
        IN  IF call.n > 0
            THEN /\ ~result.value.threw
                 /\ FlattenRange(chunks, 1, Len(chunks)) = call.list
                 /\ \A k \in 1..(Len(chunks) - 1) : Len(chunks[k]) = call.n
                 /\ Len(chunks) > 0 => Len(chunks[Len(chunks)]) \in 1..call.n
                 /\ call.list = <<>> => chunks = <<>>
                 /\ (Len(call.list) = 45 /\ call.n = 20) =>
                        [k \in 1..Len(chunks) |-> Len(chunks[k])] = <<20, 20, 5>>
            ELSE /\ result.value.threw
                 /\ chunks = <<>>

\* A 45-byte stream has been split with chunk size 20.
C6_Witness ==
    /\ call.fn = "splitEvery"
    /\ result.done
    /\ Len(call.list) = 45
    /\ call.n = 20

\* ------------------------------------------------------------ the page
\* The decimal digits of a hold id, as the property key reads.
RECURSIVE DecimalString(_)
DecimalString(n) ==
    IF n < 10 THEN <<HexDigits[n + 1]>>
    ELSE DecimalString(n \div 10) \o <<HexDigits[(n % 10) + 1]>>

\* Object.entries(obj) for an object keyed by hold ids: integer keys are
\* listed in ascending order.
ObjectEntries(obj) ==
    LET keys == DOMAIN obj
        nth(k) == CHOOSE x \in keys : Cardinality({y \in keys : y < x}) = k - 1
    IN  [k \in 1..Cardinality(keys) |->
            [id |-> DecimalString(nth(k)), color |-> obj[nth(k)]]]

\* obj with obj[id] = color set, and with the key id deleted.
SetKey(obj, id, color) ==
    [k \in DOMAIN obj \cup {id} |-> IF k = id THEN color ELSE obj[k]]

DeleteKey(obj, id) == [k \in DOMAIN obj \ {id} |-> obj[k]]

\* colorPicker.value.substring(1).toUpperCase()
SelectedColor(pickerValue) == toUpperCase(substring(pickerValue, 1, Len(pickerValue)))

\* The holds drawn on the board, the values the colour picker takes, and the
\* selections a boulder parameter of the URL loads.
BoardHolds == {5}

PickerValues == {<<"#", "f", "f", "0", "0", "0", "0">>,
                 <<"#", "0", "0", "f", "f", "0", "0">>}

UrlBoulders ==
    {<<>>, [id \in {7, 9, 12, 30, 41} |-> <<"0", "0", "F", "F", "0", "0">>]}

\* Largest number of Light-Up clicks followed.
MaxRequests == 2

\* The page after init(): the selection loadFromUrl read, nothing started.
InitPage ==
    /\ state \in UrlBoulders
    /\ isDrawing = FALSE
    /\ bluetoothDevice = "null"
    /\ requests = <<>>
    /\ delivered = <<>>
    /\ PackIdle
    /\ CodecIdle

\* mousedown on a hold: toggles the hold against the selected colour.
MouseDown ==
    \E id \in BoardHolds, pickerValue \in PickerValues :
        /\ isDrawing' = TRUE
        /\ state' = IF id \in DOMAIN state /\ state[id] = SelectedColor(pickerValue)
                    THEN DeleteKey(state, id)
                    ELSE SetKey(state, id, SelectedColor(pickerValue))
        /\ UNCHANGED <<bluetoothDevice, requests, delivered, packVars, codecVars>>

\* mouseenter on a hold: paints it while the button is down.
MouseEnter ==
    \E id \in BoardHolds, pickerValue \in PickerValues :
        /\ state' = IF isDrawing THEN SetKey(state, id, SelectedColor(pickerValue))
                    ELSE state
        /\ UNCHANGED <<isDrawing, bluetoothDevice, requests, delivered, packVars,
                       codecVars>>

\* mouseup anywhere on the document.
MouseUp ==
    /\ isDrawing' = FALSE
    /\ UNCHANGED <<state, bluetoothDevice, requests, delivered, packVars, codecVars>>

\* click on Clear All.
ClearAll ==
    /\ state' = <<>>
    /\ UNCHANGED <<isDrawing, bluetoothDevice, requests, delivered, packVars, codecVars>>

\* click on Light Up: with no hold selected the handler alerts and returns;
\* otherwise it packs the selection and calls illuminateClimb, whose
\* requestDevice either waits for the chooser or resolves with the cached
\* device, in which case gatt.connect() is called next.
LightUp ==
    /\ Len(requests) < MaxRequests
    /\ LET stateFrames == FramesOf(ObjectEntries(state))
       IN  IF stateFrames = <<>>
           THEN UNCHANGED requests
           ELSE requests' = Append(requests,
                    [pc |-> IF bluetoothDevice = "null" THEN "requestDevice"
                            ELSE "connect",
                     bluetoothPacket |->
                         getBluetoothPacket(stateFrames, KILTER_POSITIONS, NoColors),
                     messages |-> <<>>,
                     written |-> 0])
    /\ UNCHANGED <<state, isDrawing, bluetoothDevice, delivered, packVars, codecVars>>

\* navigator.bluetooth.requestDevice resolves: the device is cached and
\* gatt.connect() is called.
DeviceGranted ==
    \E r \in 1..Len(requests) :
        /\ requests[r].pc = "requestDevice"
        /\ bluetoothDevice' = "device"
        /\ requests' = [requests EXCEPT ![r].pc = "connect"]
        /\ UNCHANGED <<state, isDrawing, delivered, packVars, codecVars>>

\* The user dismisses the chooser: the catch handler stays silent.
ChooserCancelled ==
    \E r \in 1..Len(requests) :
        /\ requests[r].pc = "requestDevice"
        /\ requests' = [requests EXCEPT ![r].pc = "cancelled"]
        /\ UNCHANGED <<state, isDrawing, bluetoothDevice, delivered, packVars, codecVars>>

\* gatt.connect() resolves: getPrimaryService is called.
Connected ==
    \E r \in 1..Len(requests) :
        /\ requests[r].pc = "connect"
        /\ requests' = [requests EXCEPT ![r].pc = "getPrimaryService"]
        /\ UNCHANGED <<state, isDrawing, bluetoothDevice, delivered, packVars, codecVars>>

\* getPrimaryService resolves: getCharacteristic is called.
ServiceFound ==
    \E r \in 1..Len(requests) :
        /\ requests[r].pc = "getPrimaryService"
        /\ requests' = [requests EXCEPT ![r].pc = "getCharacteristic"]
        /\ UNCHANGED <<state, isDrawing, bluetoothDevice, delivered, packVars, codecVars>>

\* getCharacteristic resolves: the stream is split and
\* writeCharacteristicSeries calls writeValue on the first message.
CharacteristicFound ==
    \E r \in 1..Len(requests) :
        /\ requests[r].pc = "getCharacteristic"
        /\ LET units == splitMessages(requests[r].bluetoothPacket)
           IN  requests' = [requests EXCEPT
                   ![r].messages = units,
                   ![r].pc = IF Len(units) = 0 THEN "done" ELSE "writeValue"]
        /\ UNCHANGED <<state, isDrawing, bluetoothDevice, delivered, packVars, codecVars>>

\* The awaited writeValue resolves: the device has the message, and the loop
\* of writeCharacteristicSeries calls writeValue on the next one, if any.
WriteCompleted ==
    \E r \in 1..Len(requests) :
        /\ requests[r].pc = "writeValue"
        /\ delivered' = Append(delivered,
                               [request |-> r, message |-> requests[r].written + 1])
        /\ requests' = [requests EXCEPT
               ![r].written = @ + 1,
               ![r].pc = IF requests[r].written + 1 = Len(requests[r].messages)
                         THEN "done" ELSE "writeValue"]
        /\ UNCHANGED <<state, isDrawing, bluetoothDevice, packVars, codecVars>>

\* A GATT promise rejects: the catch handler alerts and the chain ends.
GattFailed ==
    \E r \in 1..Len(requests) :
        /\ requests[r].pc \in {"connect", "getPrimaryService", "getCharacteristic",
                               "writeValue"}
        /\ requests' = [requests EXCEPT ![r].pc = "alerted"]
        /\ UNCHANGED <<state, isDrawing, bluetoothDevice, delivered, packVars, codecVars>>

NextPage ==
    \/ MouseDown
    \/ MouseEnter
    \/ MouseUp
    \/ ClearAll
    \/ LightUp
    \/ DeviceGranted
    \/ ChooserCancelled
    \/ Connected
    \/ ServiceFound
    \/ CharacteristicFound
    \/ WriteCompleted
    \/ GattFailed

SpecPage == InitPage /\ [][NextPage]_vars

\* ------------------------------------------------ claims on the page
\* The invocations whose writeValue call has not settled yet.
Outstanding == {r \in 1..Len(requests) : requests[r].pc = "writeValue"}

\* C7 (as stated): whatever the sequence of Light-Up clicks, at most one
\* writeValue is outstanding on the characteristic, and the messages the
\* device receives for one request arrive contiguously and in order.
C7_WritesOneAtATime ==
    /\ Cardinality(Outstanding) <= 1
    /\ \A i \in 1..Len(delivered) : \A k \in i..Len(delivered) :
           (delivered[i].request = delivered[k].request) =>
               /\ delivered[k].message = delivered[i].message + (k - i)
               /\ \A j \in i..k : delivered[j].request = delivered[i].request

=============================================================================
